---- MODULE Spec2Model ----
(***************************************************************************)
(* The undo/redo command log of the animation editor                       *)
(* (Animations/src/editor/UndoSystem.cpp): a ring buffer of heap-allocated *)
(* commands with head/tail cursors, and the two command kinds that write   *)
(* colour properties of animation objects.                                 *)
(***************************************************************************)
EXTENDS Integers, Sequences, FiniteSets, TLC

\* ------------------------------------------------------------------ bounds
MaxCapacity == 3      \* largest maxHistory handed to init
MaxCommands == 4      \* commands allocated over one run
MaxEnvSteps == 2      \* store changes made by the rest of the editor
MaxEdits == 2         \* commands allocated in the specifications of the command kinds
EditHistory == 3      \* maxHistory of the log in those specifications

\* ------------------------------------------------------------ value spaces
Ids == {1, 2, 3}
NULL_ANIM_OBJECT == 0
Colors == {"red", "blue", "green", "yellow"}
PropTypes == {"FillColor", "StrokeColor"}

VARIABLES
    phase,      \* "none" | "ready" | "aborted" | "freed": lifetime of the UndoSystemData
    us,         \* UndoSystemData
    heap,       \* allocated Command objects, by allocation number
    am,         \* AnimationManagerData: the objects and their parent links
    calls,      \* what the last operation did: store calls and command calls
    ub,         \* TRUE once a pointer that is not a live command was called or freed
    lastOp,     \* name of the last operation
    nextUid,    \* allocation number of the next command
    streak,     \* consecutive recordings since the last init/undo/redo
    envSteps,   \* store changes made so far by the rest of the editor
    snap,       \* the objects as they were just before the last operation, if it recorded
    cmdState,   \* per command: "Applied" or "Undone" by the last call made on it, or "Destroyed"
    captured,   \* per apply-to-children command: the objects its most recent execute wrote
    script      \* progress through the capacity-3 red/blue/green/yellow scenario

vars ==
    <<phase, us, heap, am, calls, ub, lastOp, nextUid, streak, envSteps, snap,
      cmdState, captured, script>>

\* --------------------------------------------------------------- the store
NullObj == [live |-> FALSE, fillColorStart |-> "red", strokeColorStart |-> "red"]

AnimObject(fill, stroke) ==
    [live |-> TRUE, fillColorStart |-> fill, strokeColorStart |-> stroke]

\* AnimationManager::getMutableObject: the object, or a null pointer (live = FALSE)
getMutableObject(m, id) == m.am.objs[id]

Logged(m, call) == [m EXCEPT !.calls = Append(@, call)]

\* AnimationManager::updateObjectState: change notification for one object
updateObjectState(m, id) == Logged(m, <<"updateObjectState", id>>)

Children(a, id) == {c \in Ids : a.parentId[c] = id}

RECURSIVE Ascending(_)
Ascending(S) ==
    IF S = {} THEN <<>>
    ELSE LET lo == CHOOSE x \in S : \A y \in S : x <= y
         IN <<lo>> \o Ascending(S \ {lo})

RECURSIVE BreadthFirstFrom(_, _)
BreadthFirstFrom(a, queue) ==
    IF queue = <<>> THEN <<>>
    ELSE <<Head(queue)>> \o
         BreadthFirstFrom(a, Tail(queue) \o Ascending(Children(a, Head(queue))))

\* AnimObject::beginBreadthFirst .. end: the descendants of id, level by level
beginBreadthFirst(a, id) == BreadthFirstFrom(a, Ascending(Children(a, id)))

\* ------------------------------------------------------------ the commands
NoProps == [i \in {} |-> "red"]

FreedCommand ==
    [kind |-> "freed", objId |-> NULL_ANIM_OBJECT, oldVec |-> "red", newVec |-> "red",
     propType |-> "FillColor", oldProps |-> NoProps]

ModifyU8Vec4Command(objId, oldVec, newVec, propType) ==
    [kind |-> "Modify", objId |-> objId, oldVec |-> oldVec, newVec |-> newVec,
     propType |-> propType, oldProps |-> NoProps]

ApplyU8Vec4ToChildrenCommand(objId, propType) ==
    [kind |-> "Apply", objId |-> objId, oldVec |-> "red", newVec |-> "red",
     propType |-> propType, oldProps |-> NoProps]

IsLive(m, ptr) == ptr \in DOMAIN m.heap /\ m.heap[ptr].kind # "freed"

\* a store through a pointer into an object record
WriteFill(m, id, v) ==
    Logged([m EXCEPT !.am.objs[id].fillColorStart = v], <<"write", id, "FillColor", v>>)

WriteStroke(m, id, v) ==
    Logged([m EXCEPT !.am.objs[id].strokeColorStart = v], <<"write", id, "StrokeColor", v>>)

ModifyU8Vec4Command_execute_WritesOld(m, this) ==
    LET cmd == m.heap[this]
        m1 == Logged(m, <<"getMutableObject", cmd.objId>>)
    IN IF getMutableObject(m, cmd.objId).live
       THEN updateObjectState(
                IF cmd.propType = "FillColor"
                THEN WriteFill(m1, cmd.objId, cmd.oldVec)
                ELSE WriteStroke(m1, cmd.objId, cmd.oldVec),
                cmd.objId)
       ELSE m1

ModifyU8Vec4Command_execute_Fallthrough(m, this) ==
    LET cmd == m.heap[this]
        m1 == Logged(m, <<"getMutableObject", cmd.objId>>)
    IN IF getMutableObject(m, cmd.objId).live
       THEN updateObjectState(
                IF cmd.propType = "FillColor"
                THEN WriteStroke(WriteFill(m1, cmd.objId, cmd.newVec), cmd.objId, cmd.newVec)
                ELSE WriteStroke(m1, cmd.objId, cmd.newVec),
                cmd.objId)
       ELSE m1

ModifyU8Vec4Command_execute(m, this) ==
    LET cmd == m.heap[this]
        m1 == Logged(m, <<"getMutableObject", cmd.objId>>)
    IN IF getMutableObject(m, cmd.objId).live
       THEN updateObjectState(
                IF cmd.propType = "FillColor"
                THEN WriteFill(m1, cmd.objId, cmd.newVec)
                ELSE WriteStroke(m1, cmd.objId, cmd.newVec),
                cmd.objId)
       ELSE m1

ModifyU8Vec4Command_undo_WritesNew(m, this) ==
    LET cmd == m.heap[this]
        m1 == Logged(m, <<"getMutableObject", cmd.objId>>)
    IN IF getMutableObject(m, cmd.objId).live
       THEN updateObjectState(
                IF cmd.propType = "FillColor"
                THEN WriteFill(m1, cmd.objId, cmd.newVec)
                ELSE WriteStroke(m1, cmd.objId, cmd.newVec),
                cmd.objId)
       ELSE m1

ModifyU8Vec4Command_undo(m, this) ==
    LET cmd == m.heap[this]
        m1 == Logged(m, <<"getMutableObject", cmd.objId>>)
    IN IF getMutableObject(m, cmd.objId).live
       THEN updateObjectState(
                IF cmd.propType = "FillColor"
                THEN WriteFill(m1, cmd.objId, cmd.oldVec)
                ELSE WriteStroke(m1, cmd.objId, cmd.oldVec),
                cmd.objId)
       ELSE m1

\* oldProps[childId] = v on the unordered_map: insert or overwrite
MapPut(f, k, v) == [x \in DOMAIN f \cup {k} |-> IF x = k THEN v ELSE f[x]]

\* one iteration of the loop of ApplyU8Vec4ToChildrenCommand::execute
ApplyExecuteChild(m, this, childId) ==
    LET cmd == m.heap[this]
        obj == getMutableObject(m, cmd.objId)
        childObj == getMutableObject(m, childId)
        m1 == Logged(m, <<"getMutableObject", childId>>)
    IN IF ~childObj.live THEN m1
       ELSE IF cmd.propType = "FillColor"
       THEN WriteFill(
                [m1 EXCEPT !.heap[this].oldProps = MapPut(@, childId, childObj.fillColorStart)],
                childId, obj.fillColorStart)
       ELSE WriteFill(
                [m1 EXCEPT !.heap[this].oldProps = MapPut(@, childId, childObj.strokeColorStart)],
                childId, obj.strokeColorStart)

RECURSIVE ApplyExecuteLoop(_, _, _)
ApplyExecuteLoop(m, this, it) ==
    IF it = <<>> THEN m
    ELSE ApplyExecuteLoop(ApplyExecuteChild(m, this, Head(it)), this, Tail(it))

ApplyU8Vec4ToChildrenCommand_execute(m, this) ==
    LET cmd == m.heap[this]
        m1 == Logged(m, <<"getMutableObject", cmd.objId>>)
    IN IF getMutableObject(m, cmd.objId).live
       THEN updateObjectState(
                ApplyExecuteLoop(m1, this, beginBreadthFirst(m.am, cmd.objId)),
                cmd.objId)
       ELSE m1

ApplyUndoChild_AlwaysFill(m, this, childId) ==
    LET cmd == m.heap[this]
        childObj == getMutableObject(m, childId)
        m1 == Logged(m, <<"getMutableObject", childId>>)
    IN IF ~childObj.live THEN m1
       ELSE IF childId \notin DOMAIN cmd.oldProps THEN m1
       ELSE WriteFill(m1, childId, cmd.oldProps[childId])

\* one iteration of the loop of ApplyU8Vec4ToChildrenCommand::undo
ApplyUndoChild(m, this, childId) ==
    LET cmd == m.heap[this]
        childObj == getMutableObject(m, childId)
        m1 == Logged(m, <<"getMutableObject", childId>>)
    IN IF ~childObj.live THEN m1
       ELSE IF childId \notin DOMAIN cmd.oldProps THEN m1
       ELSE IF cmd.propType = "FillColor"
       THEN WriteFill(m1, childId, cmd.oldProps[childId])
       ELSE WriteStroke(m1, childId, cmd.oldProps[childId])

RECURSIVE ApplyUndoLoop(_, _, _)
ApplyUndoLoop(m, this, it) ==
    IF it = <<>> THEN m
    ELSE ApplyUndoLoop(ApplyUndoChild(m, this, Head(it)), this, Tail(it))

ApplyU8Vec4ToChildrenCommand_undo_NotifiesFirst(m, this) ==
    LET cmd == m.heap[this]
        m1 == Logged(m, <<"getMutableObject", cmd.objId>>)
    IN IF getMutableObject(m, cmd.objId).live
       THEN ApplyUndoLoop(updateObjectState(m1, cmd.objId), this,
                          beginBreadthFirst(m.am, cmd.objId))
       ELSE m1

ApplyU8Vec4ToChildrenCommand_undo(m, this) ==
    LET cmd == m.heap[this]
        m1 == Logged(m, <<"getMutableObject", cmd.objId>>)
    IN IF getMutableObject(m, cmd.objId).live
       THEN updateObjectState(
                ApplyUndoLoop(m1, this, beginBreadthFirst(m.am, cmd.objId)),
                cmd.objId)
       ELSE m1

\* a call through a pointer that is not a live command is undefined behaviour
Undefined(m) == [m EXCEPT !.ub = TRUE]

\* virtual Command::execute
Command_execute(m, ptr) ==
    IF ~IsLive(m, ptr) THEN Undefined(m)
    ELSE LET m1 == Logged(m, <<"execute", ptr>>)
         IN IF m.heap[ptr].kind = "Modify"
            THEN ModifyU8Vec4Command_execute(m1, ptr)
            ELSE ApplyU8Vec4ToChildrenCommand_execute(m1, ptr)

\* virtual Command::undo
Command_undo(m, ptr) ==
    IF ~IsLive(m, ptr) THEN Undefined(m)
    ELSE LET m1 == Logged(m, <<"undo", ptr>>)
         IN IF m.heap[ptr].kind = "Modify"
            THEN ModifyU8Vec4Command_undo(m1, ptr)
            ELSE ApplyU8Vec4ToChildrenCommand_undo(m1, ptr)

\* history[i]->~Command(); g_memory_free(history[i]);
Command_destroy(m, ptr) ==
    IF ~IsLive(m, ptr) THEN Undefined(m)
    ELSE Logged([m EXCEPT !.heap[ptr] = FreedCommand], <<"destroy", ptr>>)

\* ------------------------------------------------------------ the ring log
NoUs ==
    [history |-> <<>>, numCommands |-> 0, undoCursorTail |-> 0,
     undoCursorHead |-> 0, maxHistorySize |-> 0]

\* (undoCursorHead + numCommands) % maxHistorySize: one past the last retained command.
\* The uint32 fields are modelled as integers: a wrap below 0 would show as a
\* negative numCommands
RedoEnd(u) == (u.undoCursorHead + u.numCommands) % u.maxHistorySize

\* UndoSystem::init, past its assertion; slot value 0 is an uninitialised pointer
init(maxHistory) ==
    [history |-> [i \in 0..(maxHistory - 1) |-> 0], numCommands |-> 0,
     undoCursorTail |-> 0, undoCursorHead |-> 0, maxHistorySize |-> maxHistory]

RECURSIVE DestroyRange(_, _, _)
\* for (i = from; i != end; i = (i + 1) % maxHistorySize) destroy history[i]
DestroyRange(m, i, end) ==
    IF i = end THEN m
    ELSE DestroyRange(Command_destroy(m, m.us.history[i]),
                      (i + 1) % m.us.maxHistorySize, end)

Destroyed(m) == Len(SelectSeq(m.calls, LAMBDA c : c[1] = "destroy"))

free_UpToTail(m) ==
    LET m1 == DestroyRange(m, m.us.undoCursorHead, m.us.undoCursorTail)
    IN [m1 EXCEPT !.us = NoUs]

\* UndoSystem::free
free(m) ==
    LET m1 == DestroyRange(m, m.us.undoCursorHead, RedoEnd(m.us))
    IN [m1 EXCEPT !.us = NoUs]

undo_GuardOnCount(m) ==
    IF m.us.numCommands = 0 THEN m
    ELSE LET offsetToUndo ==
                 IF m.us.undoCursorTail = 0 THEN m.us.maxHistorySize - 1
                 ELSE m.us.undoCursorTail - 1
             m1 == Command_undo(m, m.us.history[offsetToUndo])
         IN [m1 EXCEPT !.us.undoCursorTail = offsetToUndo]

undo_StopsWhenNothingWritten(m) ==
    IF m.us.undoCursorHead = m.us.undoCursorTail THEN m
    ELSE LET offsetToUndo ==
                 IF m.us.undoCursorTail = 0 THEN m.us.maxHistorySize - 1
                 ELSE m.us.undoCursorTail - 1
             m1 == Command_undo(m, m.us.history[offsetToUndo])
         IN IF m1.am = m.am THEN m1
            ELSE [m1 EXCEPT !.us.undoCursorTail = offsetToUndo]

\* UndoSystem::undo
undo(m) ==
    IF m.us.undoCursorHead = m.us.undoCursorTail THEN m
    ELSE LET offsetToUndo ==
                 IF m.us.undoCursorTail = 0 THEN m.us.maxHistorySize - 1
                 ELSE m.us.undoCursorTail - 1
             m1 == Command_undo(m, m.us.history[offsetToUndo])
         IN [m1 EXCEPT !.us.undoCursorTail = offsetToUndo]

redo_AdvanceFirst(m) ==
    IF RedoEnd(m.us) = m.us.undoCursorTail THEN m
    ELSE LET offsetToRedo == (m.us.undoCursorTail + 1) % m.us.maxHistorySize
             m1 == Command_execute(m, m.us.history[offsetToRedo])
         IN [m1 EXCEPT !.us.undoCursorTail = offsetToRedo]

\* UndoSystem::redo
redo(m) ==
    IF RedoEnd(m.us) = m.us.undoCursorTail THEN m
    ELSE LET offsetToRedo == m.us.undoCursorTail
             m1 == Command_execute(m, m.us.history[offsetToRedo])
         IN [m1 EXCEPT !.us.undoCursorTail = (@ + 1) % m.us.maxHistorySize]

RemoveAfterTail_KeepCount(m) ==
    DestroyRange(m, m.us.undoCursorTail, RedoEnd(m.us))

\* pushAndExecuteCommand, first block: remove any commands after the current tail
RemoveAfterTail(m) ==
    LET m1 == DestroyRange(m, m.us.undoCursorTail, RedoEnd(m.us))
        numCommandsRemoved == Destroyed(m1) - Destroyed(m)
    IN [m1 EXCEPT !.us.numCommands = @ - numCommandsRemoved]

EvictOldest_WhenCountIsCapacity(m) ==
    IF m.us.numCommands = m.us.maxHistorySize
    THEN LET m1 == Command_destroy(m, m.us.history[m.us.undoCursorHead])
         IN [m1 EXCEPT !.us.undoCursorHead = (@ + 1) % m.us.maxHistorySize,
                       !.us.numCommands = @ - 1]
    ELSE m

EvictOldest_WhenNotEmpty(m) ==
    IF m.us.numCommands > 0
    THEN LET m1 == Command_destroy(m, m.us.history[m.us.undoCursorHead])
         IN [m1 EXCEPT !.us.undoCursorHead = (@ + 1) % m.us.maxHistorySize,
                       !.us.numCommands = @ - 1]
    ELSE m

EvictOldest_KeepCount(m) ==
    IF (m.us.undoCursorTail + 1) % m.us.maxHistorySize = m.us.undoCursorHead
    THEN LET m1 == Command_destroy(m, m.us.history[m.us.undoCursorHead])
         IN [m1 EXCEPT !.us.undoCursorHead = (@ + 1) % m.us.maxHistorySize]
    ELSE m

\* pushAndExecuteCommand, second block: drop the oldest command when the ring is full
EvictOldest(m) ==
    IF (m.us.undoCursorTail + 1) % m.us.maxHistorySize = m.us.undoCursorHead
    THEN LET m1 == Command_destroy(m, m.us.history[m.us.undoCursorHead])
         IN [m1 EXCEPT !.us.undoCursorHead = (@ + 1) % m.us.maxHistorySize,
                       !.us.numCommands = @ - 1]
    ELSE m

PlaceAndExecute_StoreOnly(m, command) ==
    LET offsetToPlaceNewCommand == m.us.undoCursorTail
    IN [m EXCEPT !.us.history[offsetToPlaceNewCommand] = command,
                 !.us.numCommands = @ + 1,
                 !.us.undoCursorTail = (@ + 1) % m.us.maxHistorySize]

\* pushAndExecuteCommand, last block: store the command at the tail, then execute it
PlaceAndExecute(m, command) ==
    LET offsetToPlaceNewCommand == m.us.undoCursorTail
        m1 == [m EXCEPT !.us.history[offsetToPlaceNewCommand] = command,
                        !.us.numCommands = @ + 1,
                        !.us.undoCursorTail = (@ + 1) % m.us.maxHistorySize]
    IN Command_execute(m1, m1.us.history[offsetToPlaceNewCommand])

\* UndoSystem::pushAndExecuteCommand
pushAndExecuteCommand(m, command) ==
    PlaceAndExecute(EvictOldest(RemoveAfterTail(m)), command)

\* g_memory_allocate + placement new: the new command gets the next allocation number
Allocate(m, cmd) == [m EXCEPT !.heap = Append(@, cmd)]

\* UndoSystem::setU8Vec4Prop
setU8Vec4Prop(m, objId, oldVec, newVec, propType) ==
    LET m1 == Allocate(m, ModifyU8Vec4Command(objId, oldVec, newVec, propType))
    IN pushAndExecuteCommand(m1, Len(m1.heap))

\* UndoSystem::applyU8Vec4ToChildren
applyU8Vec4ToChildren(m, id, propType) ==
    LET m1 == Allocate(m, ApplyU8Vec4ToChildrenCommand(id, propType))
    IN pushAndExecuteCommand(m1, Len(m1.heap))

\* ------------------------------------------------------------------ actions
\* the program state at the start of an operation, with an empty call record
Machine == [us |-> us, heap |-> heap, am |-> am, calls |-> <<>>, ub |-> ub]

\* the commands on which the operation that left m called execute / undo
Called(m, kind) == {u \in DOMAIN m.heap : \E i \in DOMAIN m.calls : m.calls[i] = <<kind, u>>}

\* the objects the operation that left m wrote
Written(m) == {m.calls[i][2] : i \in {j \in DOMAIN m.calls : m.calls[j][1] = "write"}}

Commit(m, op) ==
    /\ us' = m.us
    /\ heap' = m.heap
    /\ am' = m.am
    /\ calls' = m.calls
    /\ ub' = m.ub
    /\ lastOp' = op
    /\ cmdState' = [u \in DOMAIN m.heap |->
                        IF m.heap[u] = FreedCommand THEN "Destroyed"
                        ELSE IF u \in Called(m, "execute") THEN "Applied"
                        ELSE IF u \in Called(m, "undo") THEN "Undone"
                        ELSE IF u \in DOMAIN cmdState THEN cmdState[u]
                        ELSE "Unapplied"]
    /\ captured' = [u \in DOMAIN m.heap |->
                        IF m.heap[u] = FreedCommand THEN {}
                        ELSE IF m.heap[u].kind # "Apply" THEN {}
                        ELSE IF u \in Called(m, "execute") THEN Written(m)
                        ELSE IF u \in DOMAIN captured THEN captured[u]
                        ELSE {}]

NoSnap == [i \in Ids |-> NullObj]

\* the scenario of the capacity-3 log: record red->blue, record blue->green, undo,
\* record blue->yellow, redo; any other operation leaves the scenario (-1)
ScriptStep(op, objId, oldVec, newVec, propType) ==
    LET isFill(a, b) == op = "record" /\ objId = 1 /\ propType = "FillColor"
                        /\ oldVec = a /\ newVec = b
    IN IF script = 0 /\ us.maxHistorySize = 3 /\ isFill("red", "blue") THEN 1
       ELSE IF script = 1 /\ isFill("blue", "green") THEN 2
       ELSE IF script = 2 /\ op = "undo" THEN 3
       ELSE IF script = 3 /\ isFill("blue", "yellow") THEN 4
       ELSE IF script = 4 /\ op = "redo" THEN 5
       ELSE -1

DoInit_AcceptsOne(caps) ==
    /\ phase = "none"
    /\ \E maxHistory \in caps :
         IF maxHistory > 0
         THEN /\ phase' = "ready"
              /\ Commit(Logged([Machine EXCEPT !.us = init(maxHistory)],
                               <<"init", maxHistory>>), "init")
         ELSE /\ phase' = "aborted"
              /\ Commit(Logged(Machine, <<"init", maxHistory>>), "init")
    /\ snap' = NoSnap
    /\ UNCHANGED <<nextUid, streak, envSteps, script>>

\* UndoSystem::init: the assertion maxHistory > 1 is fatal when it fails
DoInit(caps) ==
    /\ phase = "none"
    /\ \E maxHistory \in caps :
         IF maxHistory > 1
         THEN /\ phase' = "ready"
              /\ Commit(Logged([Machine EXCEPT !.us = init(maxHistory)],
                               <<"init", maxHistory>>), "init")
         ELSE /\ phase' = "aborted"
              /\ Commit(Logged(Machine, <<"init", maxHistory>>), "init")
    /\ snap' = NoSnap
    /\ UNCHANGED <<nextUid, streak, envSteps, script>>

DoFree ==
    /\ phase = "ready"
    /\ phase' = "freed"
    /\ Commit(free(Machine), "free")
    /\ snap' = NoSnap
    /\ UNCHANGED <<nextUid, streak, envSteps>>
    /\ script' = -1

DoUndo ==
    /\ phase = "ready"
    /\ Commit(undo(Machine), "undo")
    /\ streak' = 0
    /\ script' = ScriptStep("undo", 0, "red", "red", "FillColor")
    /\ snap' = NoSnap
    /\ UNCHANGED <<phase, nextUid, envSteps>>

DoRedo ==
    /\ phase = "ready"
    /\ Commit(redo(Machine), "redo")
    /\ streak' = 0
    /\ script' = ScriptStep("redo", 0, "red", "red", "FillColor")
    /\ snap' = NoSnap
    /\ UNCHANGED <<phase, nextUid, envSteps>>

\* a caller of setU8Vec4Prop; with readsOld the caller passes the property's
\* current value as oldVec
DoSetU8Vec4Prop(ids, props, cols, readsOld, budget) ==
    /\ phase = "ready"
    /\ nextUid <= budget
    /\ \E objId \in ids, propType \in props, oldVec \in cols, newVec \in cols :
         /\ readsOld =>
              /\ am.objs[objId].live
              /\ oldVec = IF propType = "FillColor" THEN am.objs[objId].fillColorStart
                          ELSE am.objs[objId].strokeColorStart
         /\ Commit(setU8Vec4Prop(Machine, objId, oldVec, newVec, propType), "record")
         /\ script' = ScriptStep("record", objId, oldVec, newVec, propType)
    /\ nextUid' = nextUid + 1
    /\ streak' = streak + 1
    /\ snap' = am.objs
    /\ UNCHANGED <<phase, envSteps>>

DoApplyU8Vec4ToChildren(ids, props, budget) ==
    /\ phase = "ready"
    /\ nextUid <= budget
    /\ \E id \in ids, propType \in props :
         Commit(applyU8Vec4ToChildren(Machine, id, propType), "record")
    /\ nextUid' = nextUid + 1
    /\ streak' = streak + 1
    /\ snap' = am.objs
    /\ script' = -1
    /\ UNCHANGED <<phase, envSteps>>

\* the rest of the editor deletes an object; the scene graph keeps its link
EnvRemoveObject(ids) ==
    /\ envSteps < MaxEnvSteps
    /\ \E id \in ids :
         /\ am.objs[id].live
         /\ am' = [am EXCEPT !.objs[id] = NullObj]
    /\ envSteps' = envSteps + 1
    /\ lastOp' = "env"
    /\ calls' = <<>>
    /\ script' = -1
    /\ snap' = NoSnap
    /\ UNCHANGED <<phase, us, heap, ub, nextUid, streak, cmdState, captured>>

Descendants(a, id) ==
    LET bf == beginBreadthFirst(a, id) IN {bf[i] : i \in 1..Len(bf)}

\* the rest of the editor creates an object under a parent (0: at the top level)
EnvAddObject(ids, cols) ==
    /\ envSteps < MaxEnvSteps
    /\ \E id \in ids, p \in Ids \cup {NULL_ANIM_OBJECT}, c \in cols :
         /\ ~am.objs[id].live
         /\ p # id
         /\ p \notin Descendants(am, id)
         /\ am' = [am EXCEPT !.objs[id] = AnimObject(c, c), !.parentId[id] = p]
    /\ envSteps' = envSteps + 1
    /\ lastOp' = "env"
    /\ calls' = <<>>
    /\ script' = -1
    /\ snap' = NoSnap
    /\ UNCHANGED <<phase, us, heap, ub, nextUid, streak, cmdState, captured>>

\* the rest of the editor moves an object under another parent, or to the top level
EnvSetParent(ids) ==
    /\ envSteps < MaxEnvSteps
    /\ \E id \in ids, p \in Ids \cup {NULL_ANIM_OBJECT} :
         /\ p # id
         /\ p # am.parentId[id]
         /\ p \notin Descendants(am, id)
         /\ am' = [am EXCEPT !.parentId[id] = p]
    /\ envSteps' = envSteps + 1
    /\ lastOp' = "env"
    /\ calls' = <<>>
    /\ script' = -1
    /\ snap' = NoSnap
    /\ UNCHANGED <<phase, us, heap, ub, nextUid, streak, cmdState, captured>>

\* ----------------------------------------------------------- specifications
\* Spec: the ring log over one object; every capacity, recordings, undo, redo,
\* teardown, and the object disappearing and coming back
Store1 ==
    [objs |-> [i \in Ids |-> IF i = 1 THEN AnimObject("red", "blue") ELSE NullObj],
     parentId |-> [i \in Ids |-> NULL_ANIM_OBJECT]]

Init ==
    /\ phase = "none"
    /\ us = NoUs
    /\ heap = <<>>
    /\ am = Store1
    /\ calls = <<>>
    /\ ub = FALSE
    /\ lastOp = "none"
    /\ nextUid = 1
    /\ streak = 0
    /\ envSteps = 0
    /\ snap = NoSnap
    /\ cmdState = <<>>
    /\ captured = <<>>
    /\ script = -1

Next ==
    \/ DoInit(-1..MaxCapacity)
    \/ DoSetU8Vec4Prop({1}, {"FillColor"}, {"red", "blue"}, FALSE, MaxCommands)
    \/ DoUndo
    \/ DoRedo
    \/ DoFree
    \/ EnvRemoveObject({1})
    \/ EnvAddObject({1}, {"red"})

Spec == Init /\ [][Next]_vars

\* SpecScenario: one object whose fill colour the editor changes, each recording
\* made with the colour the object has at that time
InitScenario ==
    /\ phase = "none"
    /\ us = NoUs
    /\ heap = <<>>
    /\ am = [Store1 EXCEPT !.objs[1] = AnimObject("red", "red")]
    /\ calls = <<>>
    /\ ub = FALSE
    /\ lastOp = "none"
    /\ nextUid = 1
    /\ streak = 0
    /\ envSteps = 0
    /\ snap = NoSnap
    /\ cmdState = <<>>
    /\ captured = <<>>
    /\ script = 0

NextScenario ==
    \/ DoInit(2..MaxCapacity)
    \/ DoSetU8Vec4Prop({1}, {"FillColor"}, Colors, TRUE, MaxCommands)
    \/ DoUndo
    \/ DoRedo

SpecScenario == InitScenario /\ [][NextScenario]_vars

\* SpecModify: two objects, both colour properties, recordings with any old and
\* new value, and objects disappearing
Store2 ==
    [objs |-> [i \in Ids |-> IF i = 1 THEN AnimObject("red", "blue")
                             ELSE IF i = 2 THEN AnimObject("blue", "red")
                             ELSE NullObj],
     parentId |-> [i \in Ids |-> NULL_ANIM_OBJECT]]

InitModify ==
    /\ phase = "ready"
    /\ us = init(EditHistory)
    /\ heap = <<>>
    /\ am = Store2
    /\ calls = <<>>
    /\ ub = FALSE
    /\ lastOp = "init"
    /\ nextUid = 1
    /\ streak = 0
    /\ envSteps = 0
    /\ snap = NoSnap
    /\ cmdState = <<>>
    /\ captured = <<>>
    /\ script = -1

NextModify ==
    \/ DoSetU8Vec4Prop({1, 2}, PropTypes, {"red", "blue"}, FALSE, MaxEdits)
    \/ DoUndo
    \/ DoRedo
    \/ EnvRemoveObject({1, 2})

SpecModify == InitModify /\ [][NextModify]_vars

\* SpecApply: a target with a child and a grandchild, all colours distinct;
\* cascading commands, edits of the target, and the graph changing in between
Store3 ==
    [objs |-> [i \in Ids |-> IF i = 1 THEN AnimObject("red", "blue")
                             ELSE IF i = 2 THEN AnimObject("green", "yellow")
                             ELSE AnimObject("yellow", "green")],
     parentId |-> [i \in Ids |-> i - 1]]

InitApply ==
    /\ phase = "ready"
    /\ us = init(EditHistory)
    /\ heap = <<>>
    /\ am = Store3
    /\ calls = <<>>
    /\ ub = FALSE
    /\ lastOp = "init"
    /\ nextUid = 1
    /\ streak = 0
    /\ envSteps = 0
    /\ snap = NoSnap
    /\ cmdState = <<>>
    /\ captured = <<>>
    /\ script = -1

NextApply ==
    \/ DoApplyU8Vec4ToChildren({1}, PropTypes, MaxEdits)
    \/ DoSetU8Vec4Prop({1}, {"FillColor"}, {"green"}, FALSE, MaxEdits)
    \/ DoUndo
    \/ DoRedo
    \/ EnvRemoveObject(Ids)
    \/ EnvAddObject({3}, {"blue"})
    \/ EnvSetParent({3})

SpecApply == InitApply /\ [][NextApply]_vars

\* ------------------------------------------------------------------ claims
Ready == phase = "ready"
Capacity == us.maxHistorySize
head == us.undoCursorHead
tail == us.undoCursorTail
count == us.numCommands

\* slot i lies in [head, head+count)
InWindow(i) == (i - head) % Capacity < count

Live(ptr) == IsLive(Machine, ptr)

\* the retained commands, oldest first
Retained == [k \in 1..count |-> us.history[(head + k - 1) % Capacity]]

\* the undone commands [tail, head+count), in slot order from the tail
RedoBranch ==
    [j \in 1..((RedoEnd(us) - tail) % Capacity) |-> us.history[(tail + j - 1) % Capacity]]

Fill(id) == am.objs[id].fillColorStart
Stroke(id) == am.objs[id].strokeColorStart

\* C1 as claimed: after N+1 consecutive recordings a log of capacity N holds the N
\* most recent commands (count = N) and the first of them is gone
C1_RetainsCapacity ==
    (Ready /\ streak >= Capacity + 1) =>
        /\ count = Capacity
        /\ Retained = [k \in 1..Capacity |-> nextUid - Capacity - 1 + k]
        /\ ~Live(nextUid - streak)

C1_AfterOverfill ==
    (Ready /\ streak >= Capacity + 1) =>
        /\ count = Capacity - 1
        /\ Retained = [k \in 1..(Capacity - 1) |-> nextUid - Capacity + k]
        /\ \A u \in (nextUid - streak)..(nextUid - Capacity) : ~Live(u)

C1_DestroyedNeverReversed ==
    \A u \in DOMAIN heap :
        ~Live(u) => /\ heap'[u].kind = "freed"
                    /\ \A i \in DOMAIN calls' : calls'[i] # <<"undo", u>>

\* C1 (amended): after N+1 consecutive recordings with no undo in between, a log of
\* capacity N retains exactly the N-1 most recent commands (count = N-1), the first
\* recorded command is destroyed, and no later undo reverses a destroyed command
C1_RetainsCapacityMinusOne ==
    [] C1_AfterOverfill /\ [][C1_DestroyedNeverReversed]_vars

C1_Witness ==
    /\ Ready /\ Capacity = 3 /\ streak = Capacity + 1 /\ lastOp = "record"
    /\ count = 2 /\ ~Live(1) /\ ~Live(2)

\* C6: 0 <= count <= capacity, head and tail are indices, tail lies within
\* [head, head+count], and exactly the slots of [head, head+count) hold live commands
C6_LogInvariant ==
    Ready =>
        /\ count \in 0..Capacity
        /\ head \in 0..(Capacity - 1)
        /\ tail \in 0..(Capacity - 1)
        /\ (tail - head) % Capacity <= count
        /\ \A i \in 0..(Capacity - 1) : InWindow(i) <=> Live(us.history[i])

C6_Witness ==
    /\ Ready /\ count = 2 /\ head = 2 /\ tail = 0
    /\ \E i \in 0..(Capacity - 1) : ~InWindow(i) /\ us.history[i] # 0

\* C7: undo with head = tail calls no command and no store function and leaves
\* head, tail, count, the slots and the objects as they were
C7_UndoNothing ==
    [][(Ready /\ lastOp' = "undo" /\ head = tail) =>
           (calls' = <<>> /\ UNCHANGED <<us, heap, am, ub>>)]_vars

C7_Witness ==
    /\ Ready /\ lastOp = "undo" /\ calls = <<>>
    /\ head = tail /\ count > 0 /\ head # 0

\* C8: redo with tail = (head+count) mod capacity does nothing; otherwise it calls
\* execute on the command at tail, and only that, and advances tail by one
C8_Redo ==
    [][(Ready /\ lastOp' = "redo") =>
           IF tail = RedoEnd(us)
           THEN calls' = <<>> /\ UNCHANGED <<us, heap, am, ub>>
           ELSE /\ Live(us.history[tail])
                /\ calls' # <<>>
                /\ calls'[1] = <<"execute", us.history[tail]>>
                /\ \A i \in 2..Len(calls') : calls'[i][1] \notin {"execute", "undo", "destroy"}
                /\ us' = [us EXCEPT !.undoCursorTail = (tail + 1) % Capacity]]_vars

C8_Witness ==
    /\ Ready /\ lastOp = "redo" /\ calls # <<>> /\ tail = 0 /\ head # 0

\* a recording made while [tail, head+count) is not empty destroys exactly the
\* commands of that range, first of all, takes that many off count before it counts
\* the new command, and leaves tail at the end of the retained range
C2_Truncates ==
    (Ready /\ lastOp' = "record" /\ tail # RedoEnd(us)) =>
        LET branch == RedoBranch
            k == Len(branch)
        IN /\ Len(calls') > k
           /\ \A j \in 1..k : calls'[j] = <<"destroy", branch[j]>>
           /\ \A i \in (k + 1)..Len(calls') : calls'[i][1] # "destroy"
           /\ calls'[k + 1] = <<"execute", nextUid>>
           /\ \A j \in 1..k : heap'[branch[j]].kind = "freed"
           /\ us'.numCommands = count - k + 1
           /\ us'.undoCursorTail = RedoEnd(us')

C2_RedoAfterRecord ==
    (Ready /\ lastOp = "record" /\ lastOp' = "redo") =>
        (calls' = <<>> /\ UNCHANGED <<us, heap, am, ub>>)

C2_Scenario ==
    /\ script \in {4, 5} =>
           /\ Fill(1) = "yellow"
           /\ count = 2
           /\ tail = RedoEnd(us)
           /\ Retained = <<1, 3>>
           /\ ~Live(2)
    /\ script = 5 => calls = <<>>

\* C2: recording after undo destroys the whole redo branch, reduces count by its
\* length, and leaves tail = (head+count) mod capacity, so that the next redo
\* changes nothing; in the capacity-3 scenario the property ends yellow, count = 2
C2_RecordTruncatesRedoBranch ==
    /\ [][C2_Truncates]_vars
    /\ [][C2_RedoAfterRecord]_vars
    /\ [] C2_Scenario

C2_Witness == script = 5 /\ lastOp = "redo" /\ Capacity = 3

Prop(o, propType) ==
    IF propType = "FillColor" THEN o.fillColorStart ELSE o.strokeColorStart

OtherProp(o, propType) ==
    IF propType = "FillColor" THEN o.strokeColorStart ELSE o.fillColorStart

\* the commands whose execute (kind "execute") or undo (kind "undo") the last
\* operation called
Invoked(kind) == {c[2] : c \in {calls[i] : i \in {j \in DOMAIN calls : calls[j][1] = kind}}}

C5_Values ==
    Ready =>
        \A i \in DOMAIN calls :
            LET c == calls[i] IN
            (c[1] \in {"execute", "undo"} /\ heap[c[2]].kind = "Modify"
                 /\ am.objs[heap[c[2]].objId].live) =>
                Prop(am.objs[heap[c[2]].objId], heap[c[2]].propType) =
                    IF c[1] = "execute" THEN heap[c[2]].newVec ELSE heap[c[2]].oldVec

\* undo right after a recording or a redo reverses the command that was just
\* applied, and redo right after an undo applies the command that was just reversed
C5_SameCommand ==
    /\ (lastOp \in {"record", "redo"} /\ lastOp' = "undo" /\ Invoked("execute") # {}) =>
           Invoked("undo")' = Invoked("execute")
    /\ (lastOp = "undo" /\ lastOp' = "redo" /\ Invoked("undo") # {}) =>
           Invoked("execute")' = Invoked("undo")

\* C5: for a ModifyU8Vec4Command on an existing object the selected property is
\* newVec after recording and after every redo, oldVec after every undo, and
\* alternating undo and redo keeps acting on that one command
C5_ModifyUndoRedo == [] C5_Values /\ [][C5_SameCommand]_vars

C5_Witness ==
    /\ Ready /\ lastOp = "redo" /\ Invoked("execute") # {}
    /\ \A u \in Invoked("execute") :
           /\ heap[u].kind = "Modify" /\ heap[u].propType = "StrokeColor"
           /\ heap[u].oldVec # heap[u].newVec
           /\ am.objs[heap[u].objId].live
           /\ Stroke(heap[u].objId) = heap[u].newVec

\* the cascading command that the coming execute acts on, when lastOp' says which
ApplyExecuting ==
    {u \in DOMAIN heap' :
        /\ heap'[u].kind = "Apply"
        /\ \E i \in DOMAIN calls' : calls'[i] = <<"execute", u>>
        /\ am.objs[heap'[u].objId].live}

\* C3 as claimed: executing an ApplyU8Vec4ToChildrenCommand on an existing target
\* sets the selected property of every descendant to the target's value of that
\* property and changes no other property of a descendant
C3_ApplySetsSelected ==
    [][\A u \in ApplyExecuting :
          \A d \in Descendants(am, heap'[u].objId) :
              am.objs[d].live =>
                  /\ Prop(am'.objs[d], heap'[u].propType) =
                         Prop(am.objs[heap'[u].objId], heap'[u].propType)
                  /\ OtherProp(am'.objs[d], heap'[u].propType) =
                         OtherProp(am.objs[d], heap'[u].propType)]_vars

\* C4 as claimed: recording an ApplyU8Vec4ToChildrenCommand and undoing it at once
\* leaves every descendant of the target with the colours it had before
C4_ApplyThenUndoRestores ==
    [][(Ready /\ lastOp = "record" /\ lastOp' = "undo"
            /\ heap[nextUid - 1].kind = "Apply") =>
           \A d \in Descendants(am, heap[nextUid - 1].objId) :
               am'.objs[d] = snap[d]]_vars

\* where the cursors go by the ring alone, whatever the store holds
CursorsAfter(op) ==
    LET full == (tail + 1) % Capacity = head
        k == Len(RedoBranch)
    IN IF op = "undo"
       THEN [head |-> head, count |-> count,
             tail |-> IF head = tail THEN tail ELSE (tail - 1) % Capacity]
       ELSE IF op = "redo"
       THEN [head |-> head, count |-> count,
             tail |-> IF tail = RedoEnd(us) THEN tail ELSE (tail + 1) % Capacity]
       ELSE [head |-> IF full THEN (head + 1) % Capacity ELSE head,
             count |-> count - k - (IF full THEN 1 ELSE 0) + 1,
             tail |-> (tail + 1) % Capacity]

C9_Bookkeeping ==
    (Ready /\ lastOp' \in {"record", "undo", "redo"}) =>
        /\ us'.undoCursorHead = CursorsAfter(lastOp').head
        /\ us'.undoCursorTail = CursorsAfter(lastOp').tail
        /\ us'.numCommands = CursorsAfter(lastOp').count
        /\ ub' = ub
        /\ \A id \in Ids :
               ~am.objs[id].live =>
                   /\ am'.objs[id] = NullObj
                   /\ \A i \in DOMAIN calls' :
                          ~(calls'[i][1] = "write" /\ calls'[i][2] = id)

\* C9: an operation whose target, or one of whose descendants, is absent writes
\* nothing for the absent object and raises nothing, and head, tail and count
\* afterwards are what the ring alone determines
C9_MissingTargetPassThrough == [][C9_Bookkeeping]_vars

C9_Witness ==
    /\ Ready /\ lastOp = "undo" /\ Invoked("undo") # {}
    /\ \A u \in Invoked("undo") :
           /\ heap[u].kind = "Apply"
           /\ am.objs[heap[u].objId].live
           /\ \E d \in DOMAIN heap[u].oldProps :
                  /\ ~am.objs[d].live
                  /\ \E i \in DOMAIN calls : calls[i] = <<"getMutableObject", d>>

\* the cascading command that the coming undo reverses
ApplyUndoing ==
    {u \in DOMAIN heap :
        /\ heap[u].kind = "Apply"
        /\ \E i \in DOMAIN calls' : calls'[i] = <<"undo", u>>}

\* C10 as claimed: undo restores every id of the snapshot that still resolves,
\* whether or not the target exists and the id is still reachable from it
C10_UndoRestoresSnapshot ==
    [][\A u \in ApplyUndoing :
          \A d \in DOMAIN heap[u].oldProps :
              am.objs[d].live =>
                  Prop(am'.objs[d], heap[u].propType) = heap[u].oldProps[d]]_vars

\* C10 (amended): undo restores the recorded value of every id of the snapshot that
\* resolves and is a descendant of the target at undo time, provided the target
\* itself resolves; every other object, and every other property, is left as it is
C10_UndoRestoresReachable ==
    [][\A u \in ApplyUndoing :
          /\ ub' = ub
          /\ \A d \in Ids :
              IF /\ am.objs[heap[u].objId].live
                 /\ am.objs[d].live
                 /\ d \in DOMAIN heap[u].oldProps
                 /\ d \in Descendants(am, heap[u].objId)
              THEN /\ Prop(am'.objs[d], heap[u].propType) = heap[u].oldProps[d]
                   /\ OtherProp(am'.objs[d], heap[u].propType) =
                          OtherProp(am.objs[d], heap[u].propType)
              ELSE am'.objs[d] = am.objs[d]]_vars

C10_Witness ==
    /\ Ready /\ lastOp = "undo" /\ Invoked("undo") # {}
    /\ \A u \in Invoked("undo") :
           /\ heap[u].kind = "Apply"
           /\ am.objs[heap[u].objId].live
           /\ \E d \in DOMAIN heap[u].oldProps :
                  /\ am.objs[d].live
                  /\ d \notin Descendants(am, heap[u].objId)
                  /\ Prop(am.objs[d], heap[u].propType) # heap[u].oldProps[d]
           /\ \E d \in DOMAIN heap[u].oldProps :
                  /\ am.objs[d].live
                  /\ d \in Descendants(am, heap[u].objId)
                  /\ \E i \in DOMAIN calls : calls[i][1] = "write" /\ calls[i][2] = d

\* the objects the last operation wrote
WrittenIds == {calls[i][2] : i \in {j \in DOMAIN calls : calls[j][1] = "write"}}

\* C11 as claimed: a descendant that came under the target after the command's
\* latest execute (it was not among the descendants that execute wrote) keeps
\* both of its colours when the command is undone
C11_AddedDescendantUntouched ==
    [][\A u \in ApplyUndoing :
          \A d \in Descendants(am, heap[u].objId) :
              (am.objs[d].live /\ d \notin captured[u]) =>
                  am'.objs[d] = am.objs[d]]_vars

\* the part of C11 that the code keeps: a descendant that no execute of the
\* command ever recorded keeps both of its colours
C11_NeverRecordedUntouched ==
    [][\A u \in ApplyUndoing :
          \A d \in Descendants(am, heap[u].objId) :
              (am.objs[d].live /\ d \notin DOMAIN heap[u].oldProps) =>
                  am'.objs[d] = am.objs[d]]_vars

\* C16 as claimed: undoing an ApplyU8Vec4ToChildrenCommand writes only objects that
\* its most recent execute captured; a descendant recorded by an earlier execute
\* only, and under the target again at undo time, is neither written nor changed
C16_UndoRestoresLatestCaptureOnly ==
    [][\A u \in ApplyUndoing :
          /\ WrittenIds' \subseteq captured[u]
          /\ \A d \in DOMAIN heap[u].oldProps :
                 d \notin captured[u] => am'.objs[d] = am.objs[d]]_vars

\* what the code does instead: the undo writes, for every current descendant it
\* finds in oldProps, the value of oldProps, which execute never clears
C16_UndoRestoresMergedCaptures ==
    [][\A u \in ApplyUndoing :
          /\ captured[u] \subseteq DOMAIN heap[u].oldProps
          /\ WrittenIds' =
                 IF am.objs[heap[u].objId].live
                 THEN {d \in DOMAIN heap[u].oldProps :
                          am.objs[d].live /\ d \in Descendants(am, heap[u].objId)}
                 ELSE {}]_vars

\* the positions of the last operation's calls that are property writes
Writes == {i \in DOMAIN calls : calls[i][1] = "write"}

\* the objects the last operation notified the store about, in call order
Notified == SelectSeq(calls, LAMBDA c : c[1] = "updateObjectState")

\* C12 as claimed: every property write of a command operation, the writes to
\* descendants included, is followed in the same operation by a change
\* notification for the object that was written
C12_WriteThenNotifySameId ==
    \A i \in Writes :
        \E j \in DOMAIN calls :
            j > i /\ calls[j] = <<"updateObjectState", calls[i][2]>>

\* C12 (amended): every property write of a command operation is followed in the
\* same operation by a change notification; a ModifyU8Vec4Command writes and
\* notifies its target, an ApplyU8Vec4ToChildrenCommand notifies once, for its
\* target, after all of its descendants are written, and never for a descendant
C12_WriteThenNotifyTarget ==
    \A u \in Invoked("execute") \cup Invoked("undo") :
        /\ Len(Notified) <= 1
        /\ \A k \in DOMAIN Notified : Notified[k][2] = heap[u].objId
        /\ \A i \in Writes :
               /\ \E j \in DOMAIN calls :
                      j > i /\ calls[j] = <<"updateObjectState", heap[u].objId>>
               /\ heap[u].kind = "Modify" => calls[i][2] = heap[u].objId
               /\ heap[u].kind = "Apply" => calls[i][2] # heap[u].objId

C12_Witness ==
    /\ Ready /\ lastOp = "undo" /\ Invoked("undo") # {}
    /\ \A u \in Invoked("undo") :
           /\ heap[u].kind = "Apply"
           /\ WrittenIds = {2, 3}
           /\ Notified = << <<"updateObjectState", heap[u].objId>> >>

\* what init was asked for and what it left
C13_InitOutcome ==
    (lastOp = "init" /\ calls # <<>>) =>
        LET maxHistory == calls[1][2] IN
        IF maxHistory <= 1
        THEN phase = "aborted"
        ELSE /\ phase = "ready"
             /\ us.maxHistorySize = maxHistory
             /\ DOMAIN us.history = 0..(maxHistory - 1)
             /\ us.undoCursorHead = 0 /\ us.undoCursorTail = 0 /\ us.numCommands = 0
             /\ heap = <<>>

\* after a failed init there is no log, and no command is ever recorded
C13_NoLogAfterAbort ==
    phase = "aborted" => (us = NoUs /\ heap = <<>> /\ nextUid = 1 /\ ~ub)

\* the log of capacity 2 holds at most one command and keeps its cursors in range
C13_CapacityTwo ==
    (phase = "ready" /\ us.maxHistorySize = 2) =>
        /\ us.numCommands \in {0, 1}
        /\ us.undoCursorHead \in {0, 1}
        /\ us.undoCursorTail \in {0, 1}
        /\ (us.undoCursorTail - us.undoCursorHead) % 2 <= us.numCommands
        /\ \A i \in {0, 1} :
               IsLive(Machine, us.history[i]) <=>
                   (us.numCommands = 1 /\ i = us.undoCursorHead)
        /\ ~ub

\* C13: init with maxHistory <= 1 stops at its assertion and leaves no log; with
\* maxHistory >= 2 it leaves head = tail = count = 0 over maxHistory slots, and the
\* log of capacity 2 keeps the log invariants under record, undo and redo
C13_InitCapacity == C13_InitOutcome /\ C13_NoLogAfterAbort /\ C13_CapacityTwo

C13_Witness ==
    /\ Ready /\ Capacity = 2 /\ lastOp = "redo" /\ Invoked("execute") = {3}
    /\ count = 1 /\ head = tail + 1

\* the calls of execute (kind "execute") or undo (kind "undo") that the last
\* operation made, in order
CommandCalls(kind) == SelectSeq(calls, LAMBDA c : c[1] = kind)

\* the applied commands [head, tail), oldest first
AppliedBranch ==
    [j \in 1..((tail - head) % Capacity) |-> us.history[(head + j - 1) % Capacity]]

C14_Positions ==
    Ready =>
        /\ \A j \in DOMAIN AppliedBranch : cmdState[AppliedBranch[j]] = "Applied"
        /\ \A j \in DOMAIN RedoBranch : cmdState[RedoBranch[j]] = "Undone"
        /\ Retained = AppliedBranch \o RedoBranch
        /\ \A i, j \in DOMAIN Retained : i < j => Retained[i] < Retained[j]

C14_Calls ==
    /\ (Ready /\ lastOp' = "record") =>
           /\ CommandCalls("execute")' = << <<"execute", nextUid>> >>
           /\ CommandCalls("undo")' = <<>>
           /\ us'.history[tail] = nextUid
           /\ cmdState'[nextUid] = "Applied"
    /\ (Ready /\ lastOp' = "undo") =>
           /\ CommandCalls("execute")' = <<>>
           /\ IF head = tail
              THEN CommandCalls("undo")' = <<>>
              ELSE LET u == us.history[(tail - 1) % Capacity] IN
                   /\ CommandCalls("undo")' = << <<"undo", u>> >>
                   /\ u = AppliedBranch[Len(AppliedBranch)]
                   /\ cmdState[u] = "Applied" /\ cmdState'[u] = "Undone"
    /\ (Ready /\ lastOp' = "redo") =>
           /\ CommandCalls("undo")' = <<>>
           /\ IF tail = RedoEnd(us)
              THEN CommandCalls("execute")' = <<>>
              ELSE LET u == us.history[tail] IN
                   /\ CommandCalls("execute")' = << <<"execute", u>> >>
                   /\ u = RedoBranch[1]
                   /\ cmdState[u] = "Undone" /\ cmdState'[u] = "Applied"

\* C14: the commands of [head, tail) are Applied and those of [tail, head+count)
\* are Undone, both in recording order; a recording calls execute once, on the new
\* command; undo calls undo only on the command at tail-1, which is Applied; redo
\* calls execute only on the command at tail, which is Undone
C14_CommandStates == [] C14_Positions /\ [][C14_Calls]_vars

C14_Witness ==
    /\ Ready /\ Capacity = 3 /\ lastOp = "undo" /\ head = 2 /\ tail = 0 /\ count = 2
    /\ cmdState[us.history[2]] = "Applied" /\ cmdState[us.history[0]] = "Undone"
    /\ CommandCalls("undo") = << <<"undo", us.history[0]>> >>

\* the destroy calls of the last operation, in order
Destroys == SelectSeq(calls, LAMBDA c : c[1] = "destroy")

C15_Eviction ==
    (Ready /\ lastOp' = "record") =>
        LET k == Len(RedoBranch)
            full == (tail + 1) % Capacity = head
            oldest == us.history[head]
        IN /\ Destroys' = [j \in 1..k |-> <<"destroy", RedoBranch[j]>>]
                              \o (IF full THEN << <<"destroy", oldest>> >> ELSE <<>>)
           /\ full => /\ count - k = Capacity - 1
                       /\ count - k > 0
                       /\ cmdState[oldest] = "Applied"
                       /\ oldest = Retained[1]
                       /\ heap'[oldest] = FreedCommand
                       /\ us'.undoCursorHead = (head + 1) % Capacity
                       /\ us'.numCommands = (count - k) - 1 + 1
           /\ ~full => /\ us'.undoCursorHead = head
                        /\ us'.numCommands = (count - k) + 1
           /\ count = 0 => ~full /\ Destroys' = <<>>
           /\ \A j \in DOMAIN AppliedBranch :
                  (~full \/ j > 1) => heap'[AppliedBranch[j]] = heap[AppliedBranch[j]]

\* C15: a recording evicts only when the ring is full after the redo branch was
\* removed ((tail+1) mod capacity = head); it then destroys exactly the command at
\* head, advances head by one and lowers count by one; with count = 0 it evicts
\* nothing, and it destroys no applied command other than that oldest one
C15_EvictsOnlyOldestWhenFull == [][C15_Eviction]_vars

C15_Witness ==
    /\ Ready /\ Capacity = 3 /\ lastOp = "record" /\ streak = 3
    /\ Destroys = << <<"destroy", 1>> >>
    /\ head = 1 /\ count = 2 /\ Retained = <<2, 3>>

C17_NoneLeft ==
    /\ ~ub
    /\ Len(heap) = nextUid - 1
    /\ Ready => {u \in DOMAIN heap : Live(u)} = {Retained[j] : j \in DOMAIN Retained}
    /\ phase = "freed" =>
           \A u \in DOMAIN heap : heap[u] = FreedCommand /\ cmdState[u] = "Destroyed"

C17_DestroyedOnce ==
    /\ \A i \in DOMAIN Destroys' :
           /\ Live(Destroys'[i][2])
           /\ heap'[Destroys'[i][2]] = FreedCommand
           /\ \A j \in DOMAIN Destroys' : Destroys'[j] = Destroys'[i] => j = i
    /\ \A u \in DOMAIN heap :
           ~Live(u) =>
               /\ heap'[u] = FreedCommand
               /\ \A i \in DOMAIN calls' :
                      calls'[i][1] \in {"execute", "undo", "destroy"} => calls'[i][2] # u
    /\ \A u \in DOMAIN heap :
           (Live(u) /\ heap'[u] = FreedCommand) =>
               /\ \E i \in DOMAIN Destroys' : Destroys'[i][2] = u
               /\ lastOp' \in {"record", "free"}

\* C17: every recorded command is destroyed exactly once, by a recording (redo
\* branch or oldest command) or by free; after free no command is left alive, no
\* command was destroyed twice, and no call was ever made on a destroyed command
C17_DestroyedExactlyOnce == [] C17_NoneLeft /\ [][C17_DestroyedOnce]_vars

C17_Witness ==
    /\ phase = "freed" /\ lastOp = "free" /\ nextUid = 5
    /\ Destroys = << <<"destroy", 3>>, <<"destroy", 4>> >>

\* the calls of the last operation other than the destruction of commands
OwnCalls == SelectSeq(calls, LAMBDA c : c[1] # "destroy")

C18_Calls ==
    \A dir \in {"execute", "undo"} :
        \A u \in Invoked(dir) :
            heap[u].kind = "Modify" =>
                LET id == heap[u].objId
                    v == IF dir = "execute" THEN heap[u].newVec ELSE heap[u].oldVec
                IN OwnCalls =
                       IF am.objs[id].live
                       THEN << <<dir, u>>, <<"getMutableObject", id>>,
                               <<"write", id, heap[u].propType, v>>,
                               <<"updateObjectState", id>> >>
                       ELSE << <<dir, u>>, <<"getMutableObject", id>> >>

C18_Frame ==
    \A dir \in {"execute", "undo"} :
        \A u \in Invoked(dir)' :
            heap'[u].kind = "Modify" =>
                \A id \in Ids :
                    IF id = heap'[u].objId /\ am.objs[id].live
                    THEN /\ am'.objs[id].live
                         /\ OtherProp(am'.objs[id], heap'[u].propType) =
                                OtherProp(am.objs[id], heap'[u].propType)
                    ELSE am'.objs[id] = am.objs[id]

\* calling the same direction of a retained command again changes no object
C18_Idempotent ==
    \A u \in DOMAIN heap :
        (Live(u) /\ heap[u].kind = "Modify") =>
            /\ LET m1 == ModifyU8Vec4Command_execute(Machine, u)
               IN ModifyU8Vec4Command_execute(m1, u).am = m1.am
            /\ LET m1 == ModifyU8Vec4Command_undo(Machine, u)
               IN ModifyU8Vec4Command_undo(m1, u).am = m1.am

\* C18: execute and undo of a ModifyU8Vec4Command on an existing target make one
\* write, to the selected property of the target, and one notification, for the
\* target; on a missing target they write and notify nothing; no other object and
\* no other property changes, and the same direction twice leaves what once leaves
C18_ModifySingleWrite == [] (C18_Calls /\ C18_Idempotent) /\ [][C18_Frame]_vars

C18_Witness ==
    /\ Ready /\ lastOp = "undo" /\ Invoked("undo") # {}
    /\ \A u \in Invoked("undo") :
           /\ heap[u].objId = 2 /\ heap[u].propType = "StrokeColor"
           /\ heap[u].oldVec # heap[u].newVec
           /\ Len(OwnCalls) = 4
           /\ am.objs[1].live /\ Stroke(1) # Stroke(2) /\ Fill(2) # Stroke(2)

\* the retained commands whose last call was execute (state "Applied") or undo
\* (state "Undone")
InState(st) == {u \in DOMAIN heap : Live(u) /\ cmdState[u] = st}

\* C19: count never exceeds capacity - 1; head = tail exactly when no retained
\* command is Applied, so nothing can be undone; tail = (head+count) mod capacity
\* exactly when no retained command is Undone, so nothing can be redone
C19_CursorMeaning ==
    Ready =>
        /\ count <= Capacity - 1
        /\ (head = tail) <=> (InState("Applied") = {})
        /\ (tail = RedoEnd(us)) <=> (InState("Undone") = {})
        /\ Cardinality(InState("Applied")) = (tail - head) % Capacity
        /\ Cardinality(InState("Undone")) = (RedoEnd(us) - tail) % Capacity

C19_Witness ==
    /\ Ready /\ Capacity = 3 /\ count = Capacity - 1 /\ nextUid > 3
    /\ head = tail /\ tail # RedoEnd(us) /\ head # 0
    /\ Cardinality(InState("Undone")) = 2

\* C20: in a history of ModifyU8Vec4Commands on the fill colour of object 1, each
\* recorded with the colour of that moment as oldVec, the fill colour is the newVec
\* of the command at tail-1 whenever head # tail, and the oldVec of the command at
\* tail whenever tail # (head+count) mod capacity
C20_ValueFollowsTail ==
    Ready =>
        /\ \A u \in DOMAIN heap :
               Live(u) => /\ heap[u].kind = "Modify" /\ heap[u].objId = 1
                          /\ heap[u].propType = "FillColor"
        /\ am.objs[1].live
        /\ head # tail => Fill(1) = heap[us.history[(tail - 1) % Capacity]].newVec
        /\ tail # RedoEnd(us) => Fill(1) = heap[us.history[tail]].oldVec

C20_Witness ==
    /\ Ready /\ Capacity = 3 /\ head = 2 /\ tail = 0 /\ count = 2
    /\ heap[us.history[2]].newVec # heap[us.history[2]].oldVec
    /\ heap[us.history[0]].newVec # heap[us.history[0]].oldVec
    /\ Fill(1) = heap[us.history[0]].oldVec

====
